---- MODULE Spec2Model ----
(***************************************************************************)
(* A model of src/oppo.py: a four-operator FM voice (class Voice, class    *)
(* Operator) rendered by the sounddevice callback of main() while the      *)
(* pygame control loop xego_interface() patches op1.f and op1.k.           *)
(*                                                                         *)
(* Numbers.  Every operator field is rounded to two decimals by            *)
(* randomize() and the defaults are multiples of 0.01, so fields and times *)
(* are integers counting hundredths: a = 10 is 0.1 s, f = 44000 is 440 Hz, *)
(* s = 100 is the level 1.0.  An envelope amplitude is an exact rational   *)
(* [num, den]; a Python ZeroDivisionError is the value ZeroDivision.       *)
(***************************************************************************)
EXTENDS Integers, FiniteSets, Sequences, TLC

VARIABLES
    op,        \* op[1..4]: the fields f, a, d, s, r, k of voice.op1 .. voice.op4
    note_on,   \* voice.note_on
    note_off,  \* voice.note_off
    pc,        \* where the audio thread is: idle, call, reset, dump; aborted (an
               \* exception left the callback), closed (the stream was closed)
    frames,    \* the block length of the callback in progress
    i,         \* the element of the block sampleAt is called on next (-1: np.vectorize's probe)
    t,         \* the sample time of the latest sampleAt call
    s,         \* the sample the latest sampleAt call computed (its local s)
    ctl        \* the number of controller events handled so far

vars == <<op, note_on, note_off, pc, frames, i, t, s, ctl>>

(***************************************************************************)
(* Bounds of the model.                                                    *)
(***************************************************************************)
\* the longest block the audio host asks for
MaxFrames == 48
\* the block lengths the host asks for: the shortest and the longest
BlockSizes == {1, MaxFrames}
\* the controller events handled in one run
MaxCtl == 1
\* random.random() is drawn as n / DrawDen, n in 0 .. DrawDen - 1
DrawDen == 10000

(***************************************************************************)
(* Program constants.                                                      *)
(***************************************************************************)
\* round(x, 2): hundredths
Hundredths == 100
\* the 0.25 s margin of the retrigger test and of envLength
Margin == 25
\* the device's default sample rate (Hz): 20 Hz keeps sample times on the 0.01 s grid
samplerate == 20

Ops == 1 .. 4

Max2(x, y) == IF x >= y THEN x ELSE y

Max4(w, x, y, z) == Max2(Max2(w, x), Max2(y, z))

\* floor(n / d) for d > 0 (Integers' \div floors)
Floor(n, d) == n \div d

\* round(n / d) to the nearest integer, ties to even, for d > 0: Python's round()
Round(n, d) ==
    LET q == Floor(n, d)
        twice == 2 * (n - q * d)
    IN  IF twice < d THEN q
        ELSE IF twice > d THEN q + 1
        ELSE IF q % 2 = 0 THEN q ELSE q + 1

(***************************************************************************)
(* class Operator                                                          *)
(***************************************************************************)
\* Operator.tableLength
tableLength == 256
\* the table holds sin(2 pi n / tableLength) in thousandths
SineScale == 1000

\* Operator.sine: np.sin(np.linspace(0, 2 pi, tableLength, endpoint=False)),
\* entry n + 1 of the sequence being sine[n], rounded to thousandths
SineTable ==
    << 0, 25, 49, 74, 98, 122, 147, 171, 195, 219, 243, 267, 290, 314, 337, 360,
       383, 405, 428, 450, 471, 493, 514, 535, 556, 576, 596, 615, 634, 653, 672, 690,
       707, 724, 741, 757, 773, 788, 803, 818, 831, 845, 858, 870, 882, 893, 904, 914,
       924, 933, 942, 950, 957, 964, 970, 976, 981, 985, 989, 992, 995, 997, 999, 1000,
       1000, 1000, 999, 997, 995, 992, 989, 985, 981, 976, 970, 964, 957, 950, 942, 933,
       924, 914, 904, 893, 882, 870, 858, 845, 831, 818, 803, 788, 773, 757, 741, 724,
       707, 690, 672, 653, 634, 615, 596, 576, 556, 535, 514, 493, 471, 450, 428, 405,
       383, 360, 337, 314, 290, 267, 243, 219, 195, 171, 147, 122, 98, 74, 49, 25,
       0, -25, -49, -74, -98, -122, -147, -171, -195, -219, -243, -267, -290, -314, -337, -360,
       -383, -405, -428, -450, -471, -493, -514, -535, -556, -576, -596, -615, -634, -653, -672, -690,
       -707, -724, -741, -757, -773, -788, -803, -818, -831, -845, -858, -870, -882, -893, -904, -914,
       -924, -933, -942, -950, -957, -964, -970, -976, -981, -985, -989, -992, -995, -997, -999, -1000,
       -1000, -1000, -999, -997, -995, -992, -989, -985, -981, -976, -970, -964, -957, -950, -942, -933,
       -924, -914, -904, -893, -882, -870, -858, -845, -831, -818, -803, -788, -773, -757, -741, -724,
       -707, -690, -672, -653, -634, -615, -596, -576, -556, -535, -514, -493, -471, -450, -428, -405,
       -383, -360, -337, -314, -290, -267, -243, -219, -195, -171, -147, -122, -98, -74, -49, -25 >>

\* self.sine[n]; an index outside the table is an IndexError
sine(n) == SineTable[n + 1]

\* Operator.__init__ with its default arguments
Operator == [f |-> 44000, a |-> 10, d |-> 10, s |-> 100, r |-> 10, k |-> 100]

\* a rational result, and the failure of a division by zero
Rat(n, d) == [ok |-> TRUE, num |-> n, den |-> d]

ZeroDivision == [ok |-> FALSE, num |-> 0, den |-> 1]

\* Python's n / d on floats
Div(n, d) == IF d = 0 THEN ZeroDivision ELSE Rat(n, d)

\* sAmp with the release ramp turned round: it starts at 0 at note_off
sAmp_ReleaseFromZero(o, time, on, off) ==
    LET l == time - on
        r_time == time - off
    IN  IF on > off
        THEN IF l < o.a
             THEN Div(l, o.a)
             ELSE IF l < o.a + o.d
                  THEN IF o.d = 0 THEN ZeroDivision
                       ELSE Rat((l - o.a) * (o.s - Hundredths) + Hundredths * o.d,
                                Hundredths * o.d)
                  ELSE Rat(o.s, Hundredths)
        ELSE IF r_time < o.r
             THEN IF o.r = 0 THEN ZeroDivision
                  ELSE Rat(o.s * r_time, Hundredths * o.r)
             ELSE Rat(0, 1)

\* Operator.sAmp(time, note_on, note_off): the envelope amplitude of operator o
sAmp(o, time, on, off) ==
    LET l == time - on
        r_time == time - off
    IN  IF on > off
        THEN IF l < o.a
             THEN Div(l, o.a)
             ELSE IF l < o.a + o.d
                  \* ((l - a) / d) * (s - 1) + 1
                  THEN IF o.d = 0 THEN ZeroDivision
                       ELSE Rat((l - o.a) * (o.s - Hundredths) + Hundredths * o.d,
                                Hundredths * o.d)
                  ELSE Rat(o.s, Hundredths)
        ELSE IF r_time < o.r
             \* s * (1 - r_time / r)
             THEN IF o.r = 0 THEN ZeroDivision
                  ELSE Rat(o.s * (o.r - r_time), Hundredths * o.r)
             ELSE Rat(0, 1)

\* int() taken as the floor
Trunc_Floor(n, d) == n \div d

\* int(n / d) for d > 0: Python's int() cuts a float toward zero
Trunc(n, d) == IF n >= 0 THEN n \div d ELSE -((-n) \div d)

\* Operator.sineIndex(t): int((f * t) % 1 * tableLength); Python's % takes the
\* sign of the divisor, so the phase lies in [0, 1) for a negative f too
sineIndex(o, time) ==
    (((o.f * time) % (Hundredths * Hundredths)) * tableLength) \div (Hundredths * Hundredths)

\* Operator.sOsc(t, note_on, note_off): sAmp(...) * sine[sineIndex(t)], a rational
sOsc(o, time, on, off) ==
    LET e == sAmp(o, time, on, off)
    IN  IF e.ok THEN Rat(e.num * sine(sineIndex(o, time)), e.den * SineScale)
        ELSE ZeroDivision

\* the table index of Operator.sOscFM:
\* (self.sineIndex(t) + int(mk * msamp)) % self.tableLength
\* the index displaced by the operator's own depth o.k instead of mk
sOscFMIndex_OwnDepth(o, time, msamp, mk) ==
    (sineIndex(o, time) + Trunc(o.k * msamp.num, Hundredths * msamp.den)) % tableLength

sOscFMIndex(o, time, msamp, mk) ==
    (sineIndex(o, time) + Trunc(mk * msamp.num, Hundredths * msamp.den)) % tableLength

\* a value amp * sine[index], kept as its two factors
Term(e, n) == [ok |-> TRUE, amp |-> e, index |-> n]

\* the exception that reached sampleAt instead of a value
Raised == [ok |-> FALSE, amp |-> ZeroDivision, index |-> 0]

\* Operator.sOscFM(t, note_on, note_off, msamp, mk)
sOscFM(o, time, on, off, msamp, mk) ==
    LET e == sAmp(o, time, on, off)
    IN  IF msamp.ok /\ e.ok THEN Term(e, sOscFMIndex(o, time, msamp, mk))
        ELSE Raised

\* the field drawn without its low bound: round(random.random() * span, 2)
RandomField_NoOffset(lo, span, n) == Round(n * span, DrawDen)

\* round(lo + random.random() * span, 2) in hundredths, random.random() = n / DrawDen
RandomField(lo, span, n) == Round(lo * DrawDen + n * span, DrawDen)

\* Operator.randomize() with the six draws uf .. uk
randomize(uf, ua, ud, us, ur, uk) ==
    [f |-> RandomField(1, 44000, uf),
     a |-> RandomField(10, 200, ua),
     d |-> RandomField(1, 200, ud),
     s |-> RandomField(1, 100, us),
     r |-> RandomField(10, 200, ur),
     k |-> RandomField(1, 200000, uk)]

(***************************************************************************)
(* The draws of random.random() the model follows, per operator and field. *)
(***************************************************************************)
DrawsF(j) == IF j = 1 THEN {227, 5000} ELSE {5000}

DrawsA(j) == IF j = 2 THEN {0, 2000} ELSE {0}

DrawsD(j) == {0}

DrawsS(j) == {5000}

DrawsR(j) == IF j \in {1, 2} THEN {0, 2500} ELSE {0}

DrawsK(j) == {0}

\* what randomize() can leave in operator j
Randomized(j) ==
    { randomize(uf, ua, ud, us, ur, uk) :
        uf \in DrawsF(j), ua \in DrawsA(j), ud \in DrawsD(j),
        us \in DrawsS(j), ur \in DrawsR(j), uk \in DrawsK(j) }

(***************************************************************************)
(* class Voice                                                             *)
(***************************************************************************)
\* envLength() with only the carriers' releases in its last term
envLength_CarrierReleases(o) ==
    Max4(o[1].a, o[2].a, o[3].a, o[4].a)
    + Max4(o[1].d, o[2].d, o[3].d, o[4].d)
    + Margin
    + Max2(o[1].r, o[3].r)

\* Voice.envLength()
envLength(o) ==
    Max4(o[1].a, o[2].a, o[3].a, o[4].a)
    + Max4(o[1].d, o[2].d, o[3].d, o[4].d)
    + Margin
    + Max4(o[1].r, o[2].r, o[3].r, o[4].r)

\* the retrigger test of Voice.sampleAt: t > note_off + max(op1.r, op3.r) + 0.25
Retrigger(o, time, off) == time > off + Max2(o[1].r, o[3].r) + Margin

\* the sample Voice.sampleAt(t) computes: op1 modulated by op2 plus op3
\* modulated by op4, kept as its two terms
Sample(o, time, on, off) ==
    << sOscFM(o[1], time, on, off, sOsc(o[2], time, on, off), o[2].k),
       sOscFM(o[3], time, on, off, sOsc(o[4], time, on, off), o[4].k) >>

\* no sample yet: silence
Silence == << Term(Rat(0, 1), 0), Term(Rat(0, 1), 0) >>

\* the time of element n of a block: np.arange(frames) / samplerate; the
\* probe call of np.vectorize (n = -1) is made on element 0
SampleTime(n) == (Max2(n, 0) * Hundredths) \div samplerate

\* sampleAt returns to np.vectorize: the next element, or the end of the callback
Return ==
    /\ i' = i + 1
    /\ pc' = IF i + 1 >= frames THEN "idle" ELSE "call"

TypeOK ==
    /\ op \in [Ops -> [f : Int, a : Int, d : Int, s : Int, r : Int, k : Int]]
    /\ note_on \in Nat
    /\ note_off \in Nat
    /\ pc \in {"idle", "call", "reset", "dump", "aborted", "closed"}
    /\ frames \in 0 .. MaxFrames
    /\ i \in -1 .. MaxFrames
    /\ t \in Nat
    /\ \A c \in 1 .. 2 : s[c].index \in 0 .. tableLength - 1
    /\ ctl \in 0 .. MaxCtl

\* main(): voice = Voice(), the stream is open and the control loop runs
Init ==
    /\ op = [j \in Ops |-> Operator]
    /\ note_on = 0
    /\ note_off = 0
    /\ pc = "idle"
    /\ frames = 0
    /\ i = 0
    /\ t = 0
    /\ s = Silence
    /\ ctl = 0

(***************************************************************************)
(* The audio thread: main.callback and Voice.sampleAt, reset, dump.        *)
(***************************************************************************)
\* the host invokes callback(outdata, n, time, status): voice.z(t) is np.vectorize
\* of sampleAt, which first probes sampleAt on element 0 to learn the output type
Callback(n) ==
    /\ pc = "idle"
    /\ frames' = n
    /\ i' = -1
    /\ pc' = "call"
    /\ UNCHANGED <<op, note_on, note_off, t, s, ctl>>

\* Voice.sampleAt(t) up to its retrigger test
SampleAt ==
    /\ pc = "call"
    /\ LET time == SampleTime(i)
           new == Sample(op, time, note_on, note_off)
       IN  /\ t' = time
           /\ IF ~new[1].ok \/ ~new[2].ok
              THEN pc' = "aborted" /\ i' = i /\ s' = s
              ELSE /\ s' = new
                   /\ IF Retrigger(op, time, note_off)
                      THEN pc' = "reset" /\ i' = i
                      ELSE Return
    /\ UNCHANGED <<op, note_on, note_off, frames, ctl>>

\* Voice.reset() up to its call of dump()
Reset ==
    /\ pc = "reset"
    /\ \E o1 \in Randomized(1), o2 \in Randomized(2),
          o3 \in Randomized(3), o4 \in Randomized(4) :
          LET o == [j \in Ops |-> CASE j = 1 -> o1 [] j = 2 -> o2
                                    [] j = 3 -> o3 [] OTHER -> o4]
              new == envLength(o)
          IN  /\ op' = o
              /\ note_on' = note_on + new
              /\ note_off' = (note_on + new) + new
    /\ pc' = "dump"
    /\ UNCHANGED <<frames, i, t, s, ctl>>

\* dump() and the return of a sampleAt that computes its sample after reset()
Dump_SampleAfterReset ==
    /\ pc = "dump"
    /\ s' = Sample(op, t, note_on, note_off)
    /\ IF op[1].f = 0 \/ op[3].f = 0
       THEN pc' = "aborted" /\ i' = i
       ELSE Return
    /\ UNCHANGED <<op, note_on, note_off, frames, t, ctl>>

\* Voice.dump(): the ratios op2.f / op1.f and op4.f / op3.f, then sampleAt returns
Dump ==
    /\ pc = "dump"
    /\ IF op[1].f = 0 \/ op[3].f = 0
       THEN pc' = "aborted" /\ i' = i
       ELSE Return
    /\ UNCHANGED <<op, note_on, note_off, frames, t, s, ctl>>

(***************************************************************************)
(* The control loop: xego_interface.                                       *)
(***************************************************************************)
\* the stick positions event.value the model follows, in hundredths
AxisValues == {-100, 100}

\* the buttons with X and Y patching the depth that sampleAt reads, op2.k
ButtonDown_ModulatorDepth(b) ==
    /\ pc # "closed"
    /\ ctl < MaxCtl
    /\ ctl' = ctl + 1
    /\ op' = CASE b = 0 -> [op EXCEPT ![1].f = @ + 10 * Hundredths]
               [] b = 1 -> [op EXCEPT ![1].f = @ - 10 * Hundredths]
               [] b = 2 -> [op EXCEPT ![2].k = @ + 10]
               [] OTHER -> [op EXCEPT ![2].k = @ - 10]
    /\ UNCHANGED <<note_on, note_off, pc, frames, i, t, s>>

\* JOYBUTTONDOWN with event.button = b
ButtonDown(b) ==
    /\ pc # "closed"
    /\ ctl < MaxCtl
    /\ ctl' = ctl + 1
    /\ op' = CASE b = 0 -> [op EXCEPT ![1].f = @ + 10 * Hundredths]
               [] b = 1 -> [op EXCEPT ![1].f = @ - 10 * Hundredths]
               [] b = 2 -> [op EXCEPT ![1].k = @ + 10]
               [] OTHER -> [op EXCEPT ![1].k = @ - 10]
    /\ UNCHANGED <<note_on, note_off, pc, frames, i, t, s>>

\* JOYAXISMOTION with event.axis = axis and event.value = v / 100
AxisMotion(axis, v) ==
    /\ pc # "closed"
    /\ ctl < MaxCtl
    /\ ctl' = ctl + 1
    /\ op' = IF axis = 0
             THEN [op EXCEPT ![1].f = @ + v * 5]
             ELSE [op EXCEPT ![1].k = @ + (v * 5) \div 10]
    /\ UNCHANGED <<note_on, note_off, pc, frames, i, t, s>>

\* QUIT: running = False ends the loop and main()'s with-block closes the
\* OutputStream, which takes effect between two callbacks
Quit ==
    /\ pc = "idle"
    /\ pc' = "closed"
    /\ UNCHANGED <<op, note_on, note_off, frames, i, t, s, ctl>>

Audio ==
    \/ \E n \in BlockSizes : Callback(n)
    \/ SampleAt
    \/ Reset
    \/ Dump

Control ==
    \/ \E b \in 0 .. 3 : ButtonDown(b)
    \/ \E axis \in 0 .. 1, v \in AxisValues : AxisMotion(axis, v)
    \/ Quit

Next == Audio \/ Control

Spec == Init /\ [][Next]_vars

\* the host keeps invoking the callback while the stream is open
FairSpec == Spec /\ WF_vars(Audio)

(***************************************************************************)
(* Operator.sAmp on its own: an operator built with any durations, zero    *)
(* included, evaluated at any time against any pair of marks.              *)
(***************************************************************************)
\* the attack, decay and release an Operator is constructed with
AmpDurations == {0, 10}

\* the sustain levels it is constructed with
AmpLevels == {50, 100}

\* the marks note_on, note_off and the times it is evaluated at
AmpMarks == {0, 20, 40}

AmpTimes == {0, 10, 20, 30, 50}

InitAmp ==
    /\ op \in { [j \in Ops |-> IF j = 1 THEN [Operator EXCEPT !.a = x, !.d = y, !.r = z, !.s = lv]
                                        ELSE Operator] :
                  x \in AmpDurations, y \in AmpDurations, z \in AmpDurations, lv \in AmpLevels }
    /\ note_on \in AmpMarks
    /\ note_off \in AmpMarks
    /\ t \in AmpTimes
    /\ s = Silence
    /\ pc = "call"
    /\ frames = 1
    /\ i = 0
    /\ ctl = 0

\* one call op1.sAmp(t, note_on, note_off): it returns a value or raises
EvalAmp ==
    /\ pc = "call"
    /\ pc' = IF sAmp(op[1], t, note_on, note_off).ok THEN "idle" ELSE "aborted"
    /\ UNCHANGED <<op, note_on, note_off, frames, i, t, s, ctl>>

NextAmp == EvalAmp

SpecAmp == InitAmp /\ [][NextAmp]_vars

(***************************************************************************)
(* Voice.sampleAt on its own, for the table index of Operator.sOscFM: a    *)
(* released default voice (note_on = note_off = 0) whose carrier op1 and   *)
(* modulator op2 are constructed with the frequencies and depths below,    *)
(* sampled inside the release so that the modulator sample is not zero.    *)
(***************************************************************************)
\* the frequencies of the carrier op1 and of the modulator op2
FMCarrierFreqs == {100, 44000}

FMModulatorFreqs == {12500, 44000}

\* the modulation depths op2.k
FMDepths == {100, 250, 1000}

\* the sample times
FMTimes == 0 .. 9

InitFM ==
    /\ op \in { [j \in Ops |-> CASE j = 1 -> [Operator EXCEPT !.f = fc]
                                 [] j = 2 -> [Operator EXCEPT !.f = fm, !.k = mk]
                                 [] OTHER -> Operator] :
                  fc \in FMCarrierFreqs, fm \in FMModulatorFreqs, mk \in FMDepths }
    /\ note_on = 0
    /\ note_off = 0
    /\ t \in FMTimes
    /\ s = Silence
    /\ pc = "call"
    /\ frames = 1
    /\ i = 0
    /\ ctl = 0

\* one call voice.sampleAt(t) up to its retrigger test
EvalFM ==
    /\ pc = "call"
    /\ s' = Sample(op, t, note_on, note_off)
    /\ pc' = "idle"
    /\ UNCHANGED <<op, note_on, note_off, frames, i, t, ctl>>

NextFM == EvalFM

SpecFM == InitFM /\ [][NextFM]_vars

(***************************************************************************)
(* A new voice sampled at successive times while the control loop adjusts  *)
(* op1.f and op1.k between the calls.                                      *)
(***************************************************************************)
InitDepth ==
    /\ InitFM
    /\ t = 0

\* the caller moves on to the next sample time
NextTime ==
    /\ pc = "idle"
    /\ t + 1 \in FMTimes
    /\ t' = t + 1
    /\ pc' = "call"
    /\ UNCHANGED <<op, note_on, note_off, frames, i, s, ctl>>

NextDepth ==
    \/ EvalFM
    \/ NextTime
    \/ Control

SpecDepth == InitDepth /\ [][NextDepth]_vars

(***************************************************************************)
(* Operator.randomize on its own: op1 of a new voice is randomized with    *)
(* six independent draws, among them the least and the greatest.           *)
(***************************************************************************)
\* the numerators n of the draws n / DrawDen of random.random()
RandDraws == {0, DrawDen \div 2, DrawDen - 26, DrawDen - 1}

InitRand ==
    /\ op = [j \in Ops |-> Operator]
    /\ note_on = 0
    /\ note_off = 0
    /\ t = 0
    /\ s = Silence
    /\ pc = "reset"
    /\ frames = 1
    /\ i = 0
    /\ ctl = 0

\* one call voice.op1.randomize()
Randomize ==
    /\ pc = "reset"
    /\ \E uf \in RandDraws, ua \in RandDraws, ud \in RandDraws,
          us \in RandDraws, ur \in RandDraws, uk \in RandDraws :
          op' = [op EXCEPT ![1] = randomize(uf, ua, ud, us, ur, uk)]
    /\ pc' = "dump"
    /\ UNCHANGED <<note_on, note_off, frames, i, t, s, ctl>>

NextRand == Randomize

SpecRand == InitRand /\ [][NextRand]_vars

(***************************************************************************)
(* The claims.                                                             *)
(***************************************************************************)
\* reset() has just run, at sample time t, and dump() has not yet returned
AfterReset == pc = "dump"

\* C1: once reset() has run at sample time t the retrigger test is false
\* again for t: the new threshold lies above t
C1_ResetOncePerCrossing == AfterReset => ~Retrigger(op, t, note_off)

\* C2: every reset() strictly increases note_on and note_off
C2_ResetMovesMarksForward ==
    [][Reset => (note_on' > note_on /\ note_off' > note_off)]_vars

\* C3: immediately after reset() the voice is held: note_on > note_off
C3_HeldAfterReset == AfterReset => note_on > note_off

\* C4: after a reset() triggered by sampleAt(t) both marks lie after t
C4_MarksAfterSampleTime == AfterReset => (note_on > t /\ note_off > t)

\* C5: while the callback keeps being invoked, reset() runs again and again
C5_RetriggersForever == ([]<>(pc = "call")) => ([]<>(pc = "reset"))

\* C6: the sample times passed to sampleAt never go back
C6_TimeCursorMonotone == [][t' >= t]_vars

\* C7: no failure leaves sampleAt
C7_NoFailureLeavesSampleAt == pc # "aborted"

\* the envelope length as the specification words it: only the carriers'
\* releases enter the last term
CarrierEnvLength(o) ==
    Max4(o[1].a, o[2].a, o[3].a, o[4].a)
    + Max4(o[1].d, o[2].d, o[3].d, o[4].d)
    + Margin
    + Max2(o[1].r, o[3].r)

\* C8 as claimed: reset() advances note_on by max attack + max decay + 0.25
\* + max(op1.r, op3.r) of the new operators, and sets note_off that far
\* after the new note_on
C8_ResetAdvancesByCarrierLength ==
    [][Reset => /\ note_on' = note_on + CarrierEnvLength(op')
                /\ note_off' = note_on' + CarrierEnvLength(op')]_vars

\* max attack + max decay + 0.25 + max release, each maximum over op1 .. op4
FullEnvLength(o) ==
    LET maxOf(fld(_)) == CHOOSE m \in {fld(j) : j \in Ops} : \A j \in Ops : fld(j) <= m
        A(j) == o[j].a
        D(j) == o[j].d
        R(j) == o[j].r
    IN  maxOf(A) + maxOf(D) + Margin + maxOf(R)

\* C8 as amended: reset() advances note_on by max attack + max decay + 0.25
\* + max release over all four of the new operators, and sets note_off that
\* far after the new note_on
C8_ResetAdvancesByFullLength ==
    [][Reset => /\ note_on' = note_on + FullEnvLength(op')
                /\ note_off' = note_on' + FullEnvLength(op')]_vars

\* a reset() has run in which a modulator's release is the longest
C8_Witness ==
    /\ AfterReset
    /\ Max2(op[2].r, op[4].r) > Max2(op[1].r, op[3].r)
    /\ note_off - note_on = FullEnvLength(op)

\* C9: in the released state the amplitude of every operator at the next
\* sample time lies in [0, sustain] and is 0 from note_off + release on
C9_ReleasedAmplitudeInRange ==
    (pc = "call" /\ note_on <= note_off) =>
        \A j \in Ops :
            LET time == SampleTime(i)
                e == sAmp(op[j], time, note_on, note_off)
            IN  /\ e.ok
                /\ 0 <= e.num
                /\ e.num * Hundredths <= op[j].s * e.den
                /\ (time >= note_off + op[j].r => e.num = 0)

\* C10: sAmp returns a value whatever the durations: no call divides by zero
C10_sAmpReturnsValue == pc # "call" => (pc = "idle" /\ sAmp(op[1], t, note_on, note_off).ok)

\* modulatorDepth * modulatorSample for the pair op1, op2 at time t, as the
\* fraction ProductNum / ProductDen with ProductDen > 0
ProductNum == op[2].k * sOsc(op[2], t, note_on, note_off).num

ProductDen == Hundredths * sOsc(op[2], t, note_on, note_off).den

\* the integers a product of the model can be cut to
Cuts == -12 .. 12

\* the floor of the product: the greatest integer not above it
ProductFloor ==
    CHOOSE z \in Cuts : z * ProductDen <= ProductNum /\ ProductNum < (z + 1) * ProductDen

\* the product cut toward zero
ProductTowardZero ==
    CHOOSE z \in Cuts :
        IF ProductNum >= 0
        THEN z * ProductDen <= ProductNum /\ ProductNum < (z + 1) * ProductDen
        ELSE (z - 1) * ProductDen < ProductNum /\ ProductNum <= z * ProductDen

\* C11 as claimed: the carrier's table index is (phaseIndex(t) + floor(depth *
\* modulator sample)) mod tableLength, negative products included, and lies
\* in [0, tableLength)
C11_IndexUsesFloor ==
    pc = "idle" =>
        /\ s[1].index = (sineIndex(op[1], t) + ProductFloor) % tableLength
        /\ s[1].index \in 0 .. tableLength - 1

\* C11 as amended: the carrier's table index is (phaseIndex(t) + the product
\* depth * modulator sample cut toward zero) mod tableLength, and lies in
\* [0, tableLength)
C11_IndexCutsTowardZero ==
    pc = "idle" =>
        /\ s[1].index = (sineIndex(op[1], t) + ProductTowardZero) % tableLength
        /\ s[1].index \in 0 .. tableLength - 1

\* sOscFM has run on a negative product that is no integer
C11_Witness ==
    /\ pc = "idle"
    /\ ProductNum < 0
    /\ ProductNum % ProductDen # 0
    /\ s[1].ok

\* no reset() has run yet: the voice is as Voice() made it, but for op1.f and
\* op1.k, which the control loop may have changed
NewVoice == note_on = 0 /\ note_off = 0

\* C12 as claimed: the envelope amplitude of each operator of a newly created
\* Voice at t = 0 = note_off is 0
C12_NewVoiceFullyDecayed ==
    NewVoice => \A j \in Ops : sAmp(op[j], 0, note_on, note_off) = Rat(0, 1)

\* C12 as amended: a newly created Voice is released and at the start of its
\* release ramp: the envelope amplitude of each operator at t = 0 = note_off
\* is its sustain level 1.0, and so is the amplitude in the sample that
\* sampleAt(0) computes
C12_NewVoiceAtSustain ==
    NewVoice =>
        /\ note_on <= note_off
        /\ \A j \in Ops :
              LET e == sAmp(op[j], 0, note_on, note_off)
              IN  e.ok /\ e.num = e.den /\ op[j].s = Hundredths
        /\ (pc = "call" /\ i = 0 =>
              \A c \in 1 .. 2 : s[c].ok /\ s[c].amp.num = s[c].amp.den)

\* sampleAt(0) has been called on the new voice and returned
C12_Witness ==
    /\ NewVoice
    /\ pc = "call"
    /\ i = 0
    /\ t = 0
    /\ s[1].amp = Rat(1000, 1000)

\* C13 as claimed: after randomize() every field lies in its half-open range
\* (in hundredths): f in [0.01, 440.01), a in [0.1, 2.1), d in [0.01, 2.01),
\* s in [0.01, 1.01), r in [0.1, 2.1), k in [0.01, 2000.01)
C13_FieldsInHalfOpenRanges ==
    pc = "dump" =>
        /\ 1 <= op[1].f /\ op[1].f < 44001
        /\ 10 <= op[1].a /\ op[1].a < 210
        /\ 1 <= op[1].d /\ op[1].d < 201
        /\ 1 <= op[1].s /\ op[1].s < 101
        /\ 10 <= op[1].r /\ op[1].r < 210
        /\ 1 <= op[1].k /\ op[1].k < 200001

\* C13 as amended: after randomize() every field is a multiple of 0.01 in the
\* closed range, the high bound being reached by rounding: f in [0.01, 440.01],
\* a in [0.1, 2.1], d in [0.01, 2.01], s in [0.01, 1.01], r in [0.1, 2.1],
\* k in [0.01, 2000.01]
C13_FieldsInClosedRanges ==
    pc = "dump" =>
        /\ 1 <= op[1].f /\ op[1].f <= 44001
        /\ 10 <= op[1].a /\ op[1].a <= 210
        /\ 1 <= op[1].d /\ op[1].d <= 201
        /\ 1 <= op[1].s /\ op[1].s <= 101
        /\ 10 <= op[1].r /\ op[1].r <= 210
        /\ 1 <= op[1].k /\ op[1].k <= 200001

\* randomize() has run with the least draw for the attack and the greatest
\* for the release: the low bound is met and the high bound is reached
C13_Witness ==
    /\ pc = "dump"
    /\ op[1].a = 10
    /\ op[1].r = 210

\* C14: a sampleAt(t) call computes its sample and evaluates the retrigger
\* test on the operators and marks as they are when it starts, and itself
\* leaves them unchanged; the reset() and dump() that follow in a retriggering
\* call leave the computed sample as it is, so the call returns the sample of
\* the values before the reset
C14_SampleBeforeReset ==
    [][/\ SampleAt =>
            /\ s' = Sample(op, SampleTime(i), note_on, note_off)
            /\ (pc' = "reset") = Retrigger(op, SampleTime(i), note_off)
            /\ op' = op /\ note_on' = note_on /\ note_off' = note_off
       /\ ~SampleAt => s' = s]_vars

\* reset() has run inside a call whose sample differs from the one the new
\* operators and marks give at the same time
C14_Witness ==
    /\ AfterReset
    /\ s # Sample(op, t, note_on, note_off)

\* C15: a control event changes at most op1.f or op1.k: the marks, the
\* envelope fields a, d, s, r of op1 and every field of op2, op3, op4 stay
C15_ControlTouchesOnlyLeadPitchAndDepth ==
    [][Control =>
        /\ note_on' = note_on
        /\ note_off' = note_off
        /\ \A j \in 2 .. 4 : op'[j] = op[j]
        /\ op'[1].a = op[1].a /\ op'[1].d = op[1].d
        /\ op'[1].s = op[1].s /\ op'[1].r = op[1].r]_vars

\* a control event has changed op1.k of the new voice
C15_Witness ==
    /\ ctl > 0
    /\ NewVoice
    /\ op[1].k # Operator.k
    /\ op[1].f = Operator.f

\* C16: when dump() computes op2.f / op1.f and op4.f / op3.f, op1.f and op3.f
\* are not zero, however the control loop's updates of op1.f interleave
C16_RatioDivisorsNonZero == pc = "dump" => (op[1].f # 0 /\ op[3].f # 0)

\* C17: in every reachable state all four operators have attack, decay and
\* release above 0, and no envelope evaluation of a sampleAt call divides by 0
C17_DurationsPositive ==
    /\ \A j \in Ops : op[j].a > 0 /\ op[j].d > 0 /\ op[j].r > 0
    /\ pc = "call" =>
          \A j \in Ops : sAmp(op[j], SampleTime(i), note_on, note_off).ok

\* sampleAt is about to evaluate the envelopes of operators that a reset()
\* drew with the least decay, after a control event
C17_Witness ==
    /\ pc = "call"
    /\ note_on > 0
    /\ ctl > 0
    /\ \A j \in Ops : op[j].d = 1

\* depths that a twin voice may hold in op1.k and op3.k
AltDepths == {0, 250, 1000}

\* the voice that differs from op only in the depths of its two carriers
Twin(k1, k3) == [op EXCEPT ![1].k = k1, ![3].k = k3]

====
